---- MODULE Spec2Model ----
(***************************************************************************)
(* Model of the two interactive Bluetooth scanners                         *)
(*   src/bluetooth_scanner.py        (classic, PyBluez)                    *)
(*   src/bluetooth_scanner_bleak.py  (BLE, bleak)                          *)
(* Both follow discover -> display -> select -> inspect.  The Bluetooth    *)
(* stack and standard input are the environment: every call into them     *)
(* returns one of the outcomes the call can produce.                       *)
(*                                                                         *)
(* Python values are written as follows: a tuple is a TLA+ tuple, None is  *)
(* the empty tuple, a str read from input() is a tuple of one-character    *)
(* strings, a dict is a function from its keys.                            *)
(***************************************************************************)
EXTENDS Integers, Sequences, FiniteSets, TLC

\* ------------------------------------------------------------- bounds
\* Longest backend discovery result.
MaxDevices == 3
\* Longest line typed at the prompt.
MaxLineLen == 2
\* Most re-prompts in one run of the selector.
MaxRetries == 2
\* Longest protocol descriptor list.
MaxDescs == 2

\* ------------------------------------------------------------- state
VARIABLES
    variant,      \* which of the two scripts runs
    pc,           \* where main() is
    found,        \* what the backend's discover call returned (<<>> if it raised)
    devices,      \* main's devices
    inp,          \* what the pending input() call did
    selected,     \* main's selected_device
    selectVia,    \* how select_device was left
    retries,      \* how often select_device went round its loop again
    printed,      \* the notices the last step wrote, in order
    calls,        \* how often each function / backend operation was started
    target,       \* the address given to the backend's service enumeration
    failures,     \* the backend operations that raised an error
    interrupted,  \* during which call a KeyboardInterrupt arrived
    exitStatus,   \* the process's exit status, -1 while it runs
    proto_desc_list,  \* the argument of parse_protocol_descriptor
    protocols     \* the dict parse_protocol_descriptor builds

parseVars == <<proto_desc_list, protocols>>

vars == <<variant, pc, found, devices, inp, selected, selectVia, retries, printed,
          calls, target, failures, interrupted, exitStatus, proto_desc_list, protocols>>

\* ------------------------------------------------------------- values
None == <<>>

\* Addresses and names the backend reports, by discovery position.  The
\* second and fourth device have no name.
AddrPool == <<"AA:01", "AA:02", "AA:03", "AA:04", "AA:05">>
NamePool == <<"Speaker", "", "Phone", "", "Watch">>

\* Signal strengths a backend advertisement can carry.
RssiReadings == {-70, -40}

\* An advertisement with no rssi attribute.
NoRssiAdv == [has_rssi |-> FALSE, rssi |-> 0]
Advs == {[has_rssi |-> TRUE, rssi |-> r] : r \in RssiReadings} \cup {NoRssiAdv}

Variants == {"classic", "ble"}

\* What bluetooth.discover_devices(lookup_names=True) returns: (addr, name).
ClassicFound(n) == [i \in 1..n |-> <<AddrPool[i], NamePool[i]>>]

\* What BleakScanner.discover(return_adv=True) returns, in discovery order
\* (a dict keeps insertion order): address, device name, advertisement.
BleFound(advs) ==
    [i \in 1..Len(advs) |-> [address |-> AddrPool[i], name |-> NamePool[i], adv |-> advs[i]]]

SeqsUpTo(S, n) == UNION {[1..k -> S] : k \in 0..n}

BackendFound(v) ==
    IF v = "classic"
      THEN {ClassicFound(n) : n \in 0..MaxDevices}
      ELSE {BleFound(a) : a \in SeqsUpTo(Advs, MaxDevices)}

\* ------------------------------------------------------------- BLE sort
\* rssi = adv_data.rssi if hasattr(adv_data, 'rssi') else 0
RssiOf(adv) == IF adv.has_rssi THEN adv.rssi ELSE 0

\* name = device.name if device.name else "<Unknown>"
NameOrUnknown(name) == IF name # "" THEN name ELSE "<Unknown>"

\* device_list.append((device.address, name, rssi))
BleTuple(d) == <<d.address, NameOrUnknown(d.name), RssiOf(d.adv)>>

\* The sort key, lambda x: x[2].
SortKey(x) == x[3]

\* list.sort(key=..., reverse=True) is stable: an element goes after every
\* element already placed whose key is greater or equal.
RECURSIVE InsertDesc(_, _)
InsertDesc(x, s) ==
    IF s = <<>> THEN <<x>>
    ELSE IF SortKey(s[Len(s)]) >= SortKey(x) THEN Append(s, x)
    ELSE Append(InsertDesc(x, SubSeq(s, 1, Len(s) - 1)), s[Len(s)])

RECURSIVE SortDesc(_)
SortDesc(s) ==
    IF s = <<>> THEN <<>>
    ELSE InsertDesc(s[Len(s)], SortDesc(SubSeq(s, 1, Len(s) - 1)))

\* The device list discover_devices builds from a successful backend call.
BleDeviceList(raw) == SortDesc([i \in 1..Len(raw) |-> BleTuple(raw[i])])

discover_devices(v, raw) == IF v = "classic" THEN raw ELSE BleDeviceList(raw)

\* ------------------------------------------------------------- input text
\* The characters a typed line is made of: enough for the quit token in both
\* cases, surrounding blanks, signed and multi-digit numbers, and text that is
\* no number.  No "+" and no "_", which int() also accepts in places.
Alphabet == {" ", "q", "Q", "0", "1", "2", "3", "-", "x"}
Lines == SeqsUpTo(Alphabet, MaxLineLen)

IsSpace(c) == c = " "

RECURSIVE LStrip(_)
LStrip(s) == IF s # <<>> /\ IsSpace(s[1]) THEN LStrip(Tail(s)) ELSE s

RECURSIVE RStrip(_)
RStrip(s) ==
    IF s # <<>> /\ IsSpace(s[Len(s)]) THEN RStrip(SubSeq(s, 1, Len(s) - 1)) ELSE s

\* str.strip()
Strip(s) == RStrip(LStrip(s))

LowerChar(c) == IF c = "Q" THEN "q" ELSE c

\* str.lower()
Lower(s) == [i \in DOMAIN s |-> LowerChar(s[i])]

IsDigit(c) == c \in {"0", "1", "2", "3"}
DigitVal(c) == CASE c = "0" -> 0 [] c = "1" -> 1 [] c = "2" -> 2 [] c = "3" -> 3

RECURSIVE DecVal(_)
DecVal(s) == IF s = <<>> THEN 0 ELSE 10 * DecVal(SubSeq(s, 1, Len(s) - 1)) + DigitVal(s[Len(s)])

\* int(choice): an optional sign followed by at least one digit, nothing
\* else; anything else raises ValueError (ok = FALSE).
ParseInt(s) ==
    LET neg  == s # <<>> /\ s[1] = "-"
        body == IF neg THEN Tail(s) ELSE s
        ok   == body # <<>> /\ \A i \in DOMAIN body : IsDigit(body[i])
    IN  [ok  |-> ok,
         val |-> IF ok THEN (IF neg THEN 0 - DecVal(body) ELSE DecVal(body)) ELSE 0]

\* What one input() call can do: return a line, or raise.  UnicodeDecodeError
\* is a subclass of ValueError; EOFError is not.
ReadOutcomes ==
    {[kind |-> "line", text |-> l] : l \in Lines}
    \cup {[kind |-> k, text |-> <<>>] : k \in {"KeyboardInterrupt", "EOFError", "UnicodeDecodeError"}}

NoInput == [kind |-> "none", text |-> <<>>]

\* seq[i] for a Python list of length > 0: a negative index counts from the
\* end, an index outside -len..len-1 raises IndexError.
PyInRange(s, i) == 0 - Len(s) <= i /\ i <= Len(s) - 1
PyIndex(s, i) == IF i >= 0 THEN s[i + 1] ELSE s[Len(s) + i + 1]

\* ------------------------------------------------------------- output
\* A line (or block) written to standard output, by what it says.  The range
\* notice carries the two bounds it states.
Notice(tag) == [tag |-> tag, lo |-> 0, hi |-> 0]
RangeNotice(lo, hi) == [tag |-> "range", lo |-> lo, hi |-> hi]

\* ------------------------------------------------------------- select_device
\* choice.lower() == 'q'
IsQuitLower(choice) == choice = <<"q">>
IsQuit(choice) == Lower(choice) = <<"q">>

\* 1 <= device_num <= len(devices)
InRangeNoLower(n, ds) == n <= Len(ds)
InRangeChoice(n, ds) == 1 <= n /\ n <= Len(ds)

\* Which exceptions raised inside the try the two except clauses catch.
SelectCatchesNoDecode(exc) == exc \in {"ValueError", "KeyboardInterrupt"}
SelectCatches(exc) == exc \in {"ValueError", "UnicodeDecodeError", "KeyboardInterrupt"}

\* except ValueError: print the notice and go round the loop again.
ValueErrorReturnsNone ==
    [ctl |-> "return", via |-> "value_error", value |-> None, exc |-> "",
     notices |-> <<Notice("invalid_input")>>]
OnValueError ==
    [ctl |-> "continue", via |-> "", value |-> None, exc |-> "",
     notices |-> <<Notice("invalid_input")>>]

\* except KeyboardInterrupt: print the notice and return None.
OnKeyboardInterrupt ==
    [ctl |-> "return", via |-> "interrupt", value |-> None, exc |-> "",
     notices |-> <<Notice("cancelled")>>]

\* An exception no except clause of select_device names leaves the function.
Propagate(exc) ==
    [ctl |-> "raise", via |-> "exception", value |-> None, exc |-> exc, notices |-> <<>>]

Handle(exc) ==
    IF ~SelectCatches(exc) THEN Propagate(exc)
    ELSE IF exc = "KeyboardInterrupt" THEN OnKeyboardInterrupt
    ELSE OnValueError

\* The body of the try for a line that input() returned.
TryLine(ds, text) ==
    LET choice == Strip(text)
        parsed == ParseInt(choice)
        n      == parsed.val
    IN  IF IsQuit(choice)
          THEN [ctl |-> "return", via |-> "quit", value |-> None, exc |-> "",
                notices |-> <<>>]
        ELSE IF ~parsed.ok THEN Handle("ValueError")
        ELSE IF InRangeChoice(n, ds)
          THEN IF PyInRange(ds, n - 1)
                 THEN [ctl |-> "return", via |-> "selection",
                       value |-> PyIndex(ds, n - 1), exc |-> "", notices |-> <<>>]
                 ELSE Handle("IndexError")
        ELSE [ctl |-> "continue", via |-> "", value |-> None, exc |-> "",
              notices |-> <<RangeNotice(1, Len(ds))>>]

\* One pass of the while True loop, given what input() did.
SelectIter(ds, o) ==
    IF o.kind = "line" THEN TryLine(ds, o.text) ELSE Handle(o.kind)

\* ------------------------------------------------------------- orchestration
\* except Exception in discover_devices: KeyboardInterrupt is not an Exception.
DiscoverCatchesAll(exc) == exc \in {"Exception", "KeyboardInterrupt"}
DiscoverCatches(exc) == exc = "Exception"

\* if not devices
NeverEmpty(ds) == FALSE
EmptyCheck(ds) == ds = <<>>

\* The except clauses of list_sdp_services / inspect_device.
InspectCatchesNamed(exc) == exc \in {"BluetoothError", "TimeoutError"}
InspectCatches(exc) == exc \in {"BluetoothError", "TimeoutError", "Exception"}

\* device_address, ... = selected_device
InspectFirstListed(sel) == devices[1][1]
InspectTarget(sel) == sel[1]

\* The handlers around main() under __main__.
TopLevel(exc) ==
    IF exc = "KeyboardInterrupt" THEN [notice |-> "interrupted", status |-> 0]
    ELSE [notice |-> "fatal", status |-> 1]

\* What the backend's service enumeration can do for each variant.
InspectOutcomes(v) ==
    {"services", "no_services", "Exception", "KeyboardInterrupt"}
    \cup (IF v = "classic" THEN {"BluetoothError"} ELSE {"TimeoutError"})

InspectErrorNotice(exc) ==
    CASE exc = "BluetoothError" -> "bluetooth_error"
      [] exc = "TimeoutError"   -> "connection_timeout"
      [] OTHER                  -> "inspect_error"

\* ------------------------------------------------------------- parse_protocol_descriptor
\* The protocol identifiers of the bluetooth module the function compares with.
L2CAP_UUID == "0100"
RFCOMM_UUID == "0003"
OBEX_UUID == "0008"
TCP_UUID == "0004"
UDP_UUID == "0002"
\* An identifier that is none of them.
OtherUuid == "0001"

\* What iterating proto_desc_list can yield at one position:
\*   list   a list or tuple whose first entry is uuid, followed by params
\*   empty  an empty list or tuple
\*   scalar a value that is no list or tuple (a str, an int)
\*   raise  the iteration, or a comparison with the entry, raises here; a
\*          proto_desc_list that is not iterable at all raises at position 1
DescParams == {<<>>, <<3>>, <<5>>}
DescElems ==
    {[kind |-> "list", uuid |-> u, params |-> ps] :
        u \in {L2CAP_UUID, RFCOMM_UUID, OBEX_UUID, TCP_UUID, UDP_UUID, OtherUuid},
        ps \in DescParams}
    \cup {[kind |-> k, uuid |-> "", params |-> <<>>] : k \in {"empty", "scalar", "raise"}}

DescLists == SeqsUpTo(DescElems, MaxDescs)

\* protocols = {}
EmptyDict == [k \in {} |-> TRUE]

\* protocols[k] = v
Put(d, k, v) == [x \in DOMAIN d \cup {k} |-> IF x = k THEN v ELSE d[x]]

\* len(proto_desc)
DescLen(e) == IF e.kind = "list" THEN 1 + Len(e.params) ELSE 0

\* The loop body for one entry that the iteration yielded.
ParseEntryChannelAsPsm(d, e) ==
    IF ~(e.kind \in {"list", "empty"} /\ DescLen(e) > 0) THEN d
    ELSE IF e.uuid = L2CAP_UUID
      THEN IF DescLen(e) > 1 THEN Put(Put(d, "L2CAP", TRUE), "PSM", e.params[1])
           ELSE Put(d, "L2CAP", TRUE)
    ELSE IF e.uuid = RFCOMM_UUID
      THEN IF DescLen(e) > 1 THEN Put(Put(d, "RFCOMM", TRUE), "PSM", e.params[1])
           ELSE Put(d, "RFCOMM", TRUE)
    ELSE IF e.uuid = OBEX_UUID THEN Put(d, "OBEX", TRUE)
    ELSE IF e.uuid = TCP_UUID THEN Put(d, "TCP", TRUE)
    ELSE IF e.uuid = UDP_UUID THEN Put(d, "UDP", TRUE)
    ELSE d
ParseEntry(d, e) ==
    IF ~(e.kind \in {"list", "empty"} /\ DescLen(e) > 0) THEN d
    ELSE IF e.uuid = L2CAP_UUID
      THEN IF DescLen(e) > 1 THEN Put(Put(d, "L2CAP", TRUE), "PSM", e.params[1])
           ELSE Put(d, "L2CAP", TRUE)
    ELSE IF e.uuid = RFCOMM_UUID
      THEN IF DescLen(e) > 1 THEN Put(Put(d, "RFCOMM", TRUE), "Channel", e.params[1])
           ELSE Put(d, "RFCOMM", TRUE)
    ELSE IF e.uuid = OBEX_UUID THEN Put(d, "OBEX", TRUE)
    ELSE IF e.uuid = TCP_UUID THEN Put(d, "TCP", TRUE)
    ELSE IF e.uuid = UDP_UUID THEN Put(d, "UDP", TRUE)
    ELSE d

\* except Exception as e: protocols['parse_error'] = str(e)
OnParseError(d) == Put(d, "parse_error", "str(e)")

\* The for loop inside the try, from position i on.
RECURSIVE Walk(_, _, _)
Walk(l, i, d) ==
    IF i > Len(l) THEN d
    ELSE IF l[i].kind = "raise" THEN OnParseError(d)
    ELSE Walk(l, i + 1, ParseEntry(d, l[i]))

parse_protocol_descriptor(l) == Walk(l, 1, EmptyDict)

\* ------------------------------------------------------------- main
NoCalls == [discover |-> 0, display |-> 0, select |-> 0, read |-> 0, inspect |-> 0]

Bump(c, f) == [c EXCEPT ![f] = @ + 1]

Init ==
    /\ variant \in Variants
    /\ pc = "discover"
    /\ found = <<>>
    /\ devices = <<>>
    /\ inp = NoInput
    /\ selected = None
    /\ selectVia = "none"
    /\ retries = 0
    /\ printed = <<Notice("banner")>>
    /\ calls = NoCalls
    /\ target = ""
    /\ failures = {}
    /\ interrupted = "none"
    /\ exitStatus = -1
    /\ proto_desc_list = <<>>
    /\ protocols = EmptyDict

\* An exception that reaches the handlers under __main__ ends the process.
Abort(exc, before) ==
    LET h == TopLevel(exc)
    IN  /\ pc' = "done"
        /\ exitStatus' = h.status
        /\ printed' = Append(before, Notice(h.notice))

\* discover_devices(): the backend call returns.
DiscoverOk ==
    /\ UNCHANGED parseVars
    /\ pc = "discover"
    /\ \E raw \in BackendFound(variant) :
        /\ found' = raw
        /\ devices' = discover_devices(variant, raw)
    /\ calls' = Bump(calls, "discover")
    /\ pc' = "discovered"
    /\ printed' = <<Notice("scanning")>>
    /\ UNCHANGED <<variant, inp, selected, selectVia, retries, target, failures,
                   interrupted, exitStatus>>

\* discover_devices(): the backend call raises.
DiscoverFail ==
    /\ UNCHANGED parseVars
    /\ pc = "discover"
    /\ calls' = Bump(calls, "discover")
    /\ \E exc \in {"Exception", "KeyboardInterrupt"} :
        /\ interrupted' = IF exc = "KeyboardInterrupt" THEN "discover" ELSE interrupted
        /\ failures' = IF exc = "KeyboardInterrupt" THEN failures ELSE failures \cup {"discover"}
        /\ IF DiscoverCatches(exc)
             THEN /\ pc' = "discovered"
                  /\ printed' = <<Notice("scanning"), Notice("discovery_error")>>
                  /\ UNCHANGED exitStatus
             ELSE Abort(exc, <<Notice("scanning")>>)
    /\ UNCHANGED <<variant, found, devices, inp, selected, selectVia, retries, target>>

\* main(): no devices, print the checklist and sys.exit(1).
NoDevices ==
    /\ UNCHANGED parseVars
    /\ pc = "discovered"
    /\ EmptyCheck(devices)
    /\ pc' = "done"
    /\ exitStatus' = 1
    /\ printed' = <<Notice("checklist")>>
    /\ UNCHANGED <<variant, found, devices, inp, selected, selectVia, retries, calls,
                   target, failures, interrupted>>

\* display_devices(devices)
display_devices(ds) == IF ds = <<>> THEN Notice("no_devices_found") ELSE Notice("table")

\* main(): display_devices(devices), then enter select_device(devices).
Display ==
    /\ UNCHANGED parseVars
    /\ pc = "discovered"
    /\ ~EmptyCheck(devices)
    /\ calls' = Bump(Bump(calls, "display"), "select")
    /\ pc' = "prompt"
    /\ printed' = <<display_devices(devices)>>
    /\ UNCHANGED <<variant, found, devices, inp, selected, selectVia, retries, target,
                   failures, interrupted, exitStatus>>

\* select_device: input(prompt) writes the prompt and returns a line or raises.
\* The guard bounds the number of times the loop goes round again.
ReadInput ==
    /\ UNCHANGED parseVars
    /\ pc = "prompt"
    /\ \E o \in ReadOutcomes :
        /\ retries < MaxRetries \/ SelectIter(devices, o).ctl # "continue"
        /\ inp' = o
        /\ interrupted' = IF o.kind = "KeyboardInterrupt" THEN "select" ELSE interrupted
    /\ calls' = Bump(calls, "read")
    /\ pc' = "got"
    /\ printed' = <<Notice("prompt")>>
    /\ UNCHANGED <<variant, found, devices, selected, selectVia, retries, target,
                   failures, exitStatus>>

\* select_device: the rest of the loop body, and what ends the loop.
SelectStep ==
    /\ UNCHANGED parseVars
    /\ pc = "got"
    /\ LET r == SelectIter(devices, inp)
       IN  \/ /\ r.ctl = "continue"
              /\ retries' = retries + 1
              /\ pc' = "prompt"
              /\ inp' = NoInput
              /\ printed' = r.notices
              /\ UNCHANGED <<selected, selectVia, exitStatus>>
           \/ /\ r.ctl = "return"
              /\ selected' = r.value
              /\ selectVia' = r.via
              /\ pc' = "selected"
              /\ printed' = r.notices
              /\ UNCHANGED <<inp, retries, exitStatus>>
           \/ /\ r.ctl = "raise"
              /\ selectVia' = r.via
              /\ Abort(r.exc, r.notices)
              /\ UNCHANGED <<inp, selected, retries>>
    /\ UNCHANGED <<variant, found, devices, calls, target, failures, interrupted>>

\* main(): if not selected_device, print the exit notice and sys.exit(0).
ExitNoSelection ==
    /\ UNCHANGED parseVars
    /\ pc = "selected"
    /\ selected = None
    /\ pc' = "done"
    /\ exitStatus' = 0
    /\ printed' = <<Notice("exiting")>>
    /\ UNCHANGED <<variant, found, devices, inp, selected, selectVia, retries, calls,
                   target, failures, interrupted>>

\* main(): list_sdp_services / inspect_device on the selected device, then the
\* completion notice.  The backend call returns services, none, or raises.
Inspect ==
    /\ UNCHANGED parseVars
    /\ pc = "selected"
    /\ selected # None
    /\ calls' = Bump(calls, "inspect")
    /\ target' = InspectTarget(selected)
    /\ \E o \in InspectOutcomes(variant) :
        LET head == <<Notice("selected"), Notice("querying")>>
            Completed(n) ==
                /\ pc' = "done"
                /\ exitStatus' = 0
                /\ printed' = head \o <<Notice(n), Notice("complete")>>
        IN  /\ interrupted' = IF o = "KeyboardInterrupt" THEN "inspect" ELSE interrupted
            /\ failures' = IF o \in {"services", "no_services", "KeyboardInterrupt"}
                             THEN failures ELSE failures \cup {"inspect"}
            /\ IF o \in {"services", "no_services"} THEN Completed(o)
               ELSE IF InspectCatches(o) THEN Completed(InspectErrorNotice(o))
               ELSE Abort(o, head)
    /\ UNCHANGED <<variant, found, devices, inp, selected, selectVia, retries>>

Next ==
    \/ DiscoverOk
    \/ DiscoverFail
    \/ NoDevices
    \/ Display
    \/ ReadInput
    \/ SelectStep
    \/ ExitNoSelection
    \/ Inspect

Spec == Init /\ [][Next]_vars

\* ------------------------------------------------------------- claims: selector
\* How a typed line reads, stated without the code's own helpers.
Blank(t, i) == t[i] = " "

\* The line is the quit token: one q or Q, with nothing but blanks around it.
QuitLine(t) ==
    \E i \in DOMAIN t :
        /\ t[i] \in {"q", "Q"}
        /\ \A j \in DOMAIN t \ {i} : Blank(t, j)

\* The first and last position of the line that are not blank.
FirstInk(t) == CHOOSE i \in DOMAIN t : ~Blank(t, i) /\ \A j \in 1..(i - 1) : Blank(t, j)
LastInk(t) == CHOOSE i \in DOMAIN t : ~Blank(t, i) /\ \A j \in (i + 1)..Len(t) : Blank(t, j)
AllBlank(t) == \A i \in DOMAIN t : Blank(t, i)

\* The line is a decimal integer: blanks, an optional minus sign, digits, blanks.
NumberLine(t) ==
    /\ ~AllBlank(t)
    /\ LET a == FirstInk(t)
           b == LastInk(t)
           d == IF t[a] = "-" THEN a + 1 ELSE a
       IN  d <= b /\ \A i \in d..b : t[i] \in {"0", "1", "2", "3"}

Digit(c) == IF c = "0" THEN 0 ELSE IF c = "1" THEN 1 ELSE IF c = "2" THEN 2 ELSE 3

RECURSIVE Pow10(_)
Pow10(k) == IF k = 0 THEN 1 ELSE 10 * Pow10(k - 1)

RECURSIVE DigitSum(_, _, _)
DigitSum(t, d, b) == IF d > b THEN 0 ELSE Digit(t[d]) * Pow10(b - d) + DigitSum(t, d + 1, b)

\* The integer a number line denotes.
NumberOf(t) ==
    LET a == FirstInk(t)
        b == LastInk(t)
    IN  IF t[a] = "-" THEN 0 - DigitSum(t, a + 1, b) ELSE DigitSum(t, a, b)

\* A malformed line: not the quit token and not a number in 1..len(catalog).
NotANumber(t) == ~QuitLine(t) /\ ~NumberLine(t)
OutOfRange(t) == NumberLine(t) /\ ~(NumberOf(t) \in 1..Len(devices))

\* select_device has been entered and control has left its loop.
LeftLoop == calls.select = 1 /\ pc \in {"selected", "done"}

\* C1: whatever select_device returns is None or the catalog element at the
\* 1-based position the typed number denotes, in both variants; it is never
\* another element, nor a value that is not in the catalog.
C1_SelectionIsCatalogElement ==
    (LeftLoop /\ devices # <<>> /\ selectVia # "exception") =>
        \/ selected = None
        \/ /\ inp.kind = "line"
           /\ NumberLine(inp.text)
           /\ NumberOf(inp.text) \in 1..Len(devices)
           /\ selected = devices[NumberOf(inp.text)]

C1_Witness ==
    /\ variant = "ble"
    /\ LeftLoop
    /\ Len(devices) = 3
    /\ inp.text = <<" ", "2">>
    /\ selected = devices[2]
    /\ selected # devices[1]

\* C4: from a malformed line (no number, zero, negative, or above the catalog
\* length) the selector prints the matching notice (invalid input, or the range
\* notice with bounds 1 and len), returns nothing, goes back to read another
\* line, and leaves the catalog as it was; however many such lines came before.
C4_MalformedLineReprompts ==
    [][(pc = "got" /\ inp.kind = "line" /\ (NotANumber(inp.text) \/ OutOfRange(inp.text))) =>
          /\ pc' = "prompt"
          /\ retries' = retries + 1
          /\ devices' = devices
          /\ selected' = None /\ selectVia' = "none"
          /\ exitStatus' = -1
          /\ printed' = IF NotANumber(inp.text)
                          THEN <<Notice("invalid_input")>>
                          ELSE <<RangeNotice(1, Len(devices))>>]_vars

C4_Witness ==
    /\ pc = "prompt"
    /\ retries = 2
    /\ Len(devices) = 2
    /\ printed = <<RangeNotice(1, 2)>>

\* C5 as claimed: whatever the read does, control leaves the selector's loop only
\* by returning the chosen catalog element, by returning None after the quit
\* token, or by returning None after an interruption.
C5_OnlyThreeExits ==
    LeftLoop =>
        \/ /\ selectVia = "selection"
           /\ inp.kind = "line" /\ NumberLine(inp.text)
           /\ NumberOf(inp.text) \in 1..Len(devices)
           /\ selected = devices[NumberOf(inp.text)]
        \/ /\ selectVia = "quit"
           /\ inp.kind = "line" /\ QuitLine(inp.text)
           /\ selected = None
        \/ /\ selectVia = "interrupt"
           /\ inp.kind = "KeyboardInterrupt"
           /\ selected = None

\* C5 as amended: those three, or a failure of the read that is neither a
\* ValueError nor an interruption (end of input), which leaves select_device as
\* an exception and ends the process with the fatal-error notice and status 1.
\* A read that fails with a ValueError never leaves the loop.
C5_ThreeExitsOrReadFailure ==
    /\ LeftLoop =>
        \/ C5_OnlyThreeExits
        \/ /\ selectVia = "exception"
           /\ inp.kind = "EOFError"
           /\ selected = None
           /\ pc = "done" /\ exitStatus = 1
           /\ printed = <<Notice("fatal")>>
    /\ (LeftLoop /\ inp.kind \in {"line", "KeyboardInterrupt"}) => C5_OnlyThreeExits

C5_Witness ==
    /\ LeftLoop
    /\ inp.kind = "EOFError"
    /\ retries = 1
    /\ exitStatus = 1

\* C8: a line that is the quit token makes the selector return None at once and
\* print nothing, however many malformed lines came before; main then prints the
\* exit notice and ends with status 0, and no service enumeration is started.
C8_QuitTokenExitsCleanly ==
    [][/\ (pc = "got" /\ inp.kind = "line" /\ QuitLine(inp.text)) =>
            /\ pc' = "selected"
            /\ selected' = None /\ selectVia' = "quit"
            /\ printed' = <<>>
            /\ retries' = retries
       /\ (pc = "selected" /\ selectVia = "quit") =>
            /\ pc' = "done"
            /\ exitStatus' = 0
            /\ printed' = <<Notice("exiting")>>
            /\ calls'.inspect = 0]_vars

C8_Witness ==
    /\ pc = "done"
    /\ inp.text = <<"Q", " ">>
    /\ retries = 2
    /\ exitStatus = 0
    /\ calls.inspect = 0
    /\ printed = <<Notice("exiting")>>

\* ------------------------------------------------------------- claims: workflow
PrintedTags == {printed[i].tag : i \in DOMAIN printed}

\* The discover call has ended without an interruption and main holds no device.
ZeroDevices == pc # "discover" /\ interrupted # "discover" /\ devices = <<>>

\* C2: when discovery yields no device, also because the backend call raised,
\* main can only print the checklist and exit with status 1; display_devices,
\* select_device and the service enumeration are never started.
C2_ZeroDevicesExitOne ==
    ZeroDevices =>
        /\ calls.display = 0 /\ calls.select = 0 /\ calls.read = 0 /\ calls.inspect = 0
        /\ pc \in {"discovered", "done"}
        /\ pc = "discovered" => ENABLED NoDevices /\ ~ENABLED Display
        /\ pc = "done" => exitStatus = 1 /\ printed = <<Notice("checklist")>>

C2_Witness ==
    /\ "discover" \in failures
    /\ found = <<>>
    /\ pc = "done"
    /\ exitStatus = 1
    /\ printed = <<Notice("checklist")>>

ErrorTags == {"bluetooth_error", "connection_timeout", "inspect_error"}

\* C3: a backend error raised by the service enumeration of the selected device
\* is caught inside the inspection function: the step prints an error notice,
\* then the completion notice, and the process ends with status 0; the
\* top-level handler's fatal-error notice is not printed.
C3_InspectErrorExitsZero ==
    "inspect" \in failures =>
        /\ selectVia = "selection"
        /\ pc = "done"
        /\ exitStatus = 0
        /\ Len(printed) = 4
        /\ printed[3].tag \in ErrorTags
        /\ printed[4] = Notice("complete")
        /\ "fatal" \notin PrintedTags

C3_Witness ==
    /\ variant = "classic"
    /\ "inspect" \in failures
    /\ printed[3] = Notice("bluetooth_error")
    /\ exitStatus = 0

\* C6: once a KeyboardInterrupt has arrived, during discovery, at the prompt or
\* during service enumeration, nothing is reported as a discovery, enumeration
\* or fatal error, the status is never 1 and the process ends with status 0,
\* and the backend is not called again.
C6_InterruptExitsZero ==
    interrupted # "none" =>
        /\ PrintedTags \cap (ErrorTags \cup {"discovery_error", "fatal", "checklist"}) = {}
        /\ exitStatus \in {-1, 0}
        /\ pc = "done" => exitStatus = 0
        /\ failures = {}
        /\ interrupted = "discover" => pc = "done" /\ calls.select = 0 /\ calls.inspect = 0
        /\ pc = "got" => ENABLED SelectStep
        /\ pc = "selected" => ENABLED ExitNoSelection /\ ~ENABLED Inspect
        /\ interrupted = "select" =>
              /\ pc \in {"got", "selected", "done"}
              /\ calls.discover = 1 /\ calls.inspect = 0
              /\ pc # "got" => selected = None
        /\ interrupted = "inspect" => pc = "done" /\ calls.discover = 1 /\ calls.inspect = 1

C6_Witness ==
    /\ interrupted = "inspect"
    /\ variant = "ble"
    /\ pc = "done"
    /\ exitStatus = 0
    /\ printed[Len(printed)] = Notice("interrupted")

CatalogElements == {devices[i] : i \in DOMAIN devices}

\* C10: discover is called once, display and select_device at most once, the
\* service enumeration at most once and only with the address of the catalog
\* element select_device returned; a backend call that failed is not made
\* again.  Only the selector's read repeats.
C10_BackendCalledOnce ==
    /\ calls.discover = (IF pc = "discover" THEN 0 ELSE 1)
    /\ calls.display <= 1 /\ calls.select <= 1 /\ calls.inspect <= 1
    /\ calls.read <= retries + 1
    /\ calls.inspect = 1 =>
          /\ selectVia = "selection"
          /\ selected \in CatalogElements
          /\ target = selected[1]
          /\ pc = "done"
    /\ "discover" \in failures => calls.discover = 1 /\ calls.inspect = 0
    /\ "inspect" \in failures => calls.inspect = 1 /\ pc = "done"

C10_Witness ==
    /\ Len(devices) = 3
    /\ calls.read = 3
    /\ calls.inspect = 1
    /\ "inspect" \in failures
    /\ selected = devices[2]
    /\ target = AddrPool[2]
    /\ variant = "classic"

\* ------------------------------------------------------------- claims: BLE order
\* The discovery position of a catalog entry, and the advertisement the
\* backend reported for it.
FoundAt(d) == CHOOSE i \in DOMAIN found : found[i].address = d[1]
AdvOf(d) == found[FoundAt(d)].adv

\* C7 as claimed: the BLE catalog is the discovered devices, strongest signal
\* first, devices with equal strength in discovery order, and every device with
\* no signal strength after every device that has one.
C7_AbsentStrengthLast ==
    (variant = "ble" /\ pc # "discover" /\ found # <<>>) =>
        /\ Len(devices) = Len(found)
        /\ {devices[i][1] : i \in DOMAIN devices} = {found[i].address : i \in DOMAIN found}
        /\ \A i, j \in DOMAIN devices :
              i < j =>
                LET a == AdvOf(devices[i])
                    b == AdvOf(devices[j])
                IN  /\ (a.has_rssi /\ b.has_rssi) => a.rssi >= b.rssi
                    /\ b.has_rssi => a.has_rssi
                    /\ a = b => FoundAt(devices[i]) < FoundAt(devices[j])

\* ------------------------------------------------------------- the parser alone
\* parse_protocol_descriptor applied to every descriptor list within the bound.
InitParse ==
    /\ variant = "classic"
    /\ pc = "parse"
    /\ found = <<>>
    /\ devices = <<>>
    /\ inp = NoInput
    /\ selected = None
    /\ selectVia = "none"
    /\ retries = 0
    /\ printed = <<>>
    /\ calls = NoCalls
    /\ target = ""
    /\ failures = {}
    /\ interrupted = "none"
    /\ exitStatus = -1
    /\ proto_desc_list \in DescLists
    /\ protocols = EmptyDict

Parse ==
    /\ pc = "parse"
    /\ protocols' = parse_protocol_descriptor(proto_desc_list)
    /\ pc' = "parsed"
    /\ UNCHANGED <<variant, found, devices, inp, selected, selectVia, retries, printed,
                   calls, target, failures, interrupted, exitStatus, proto_desc_list>>

NextParse == Parse

SpecParse == InitParse /\ [][NextParse]_vars

\* ------------------------------------------------------------- claims: parser
\* The first position where walking the list raises, or one past its end.
Cut ==
    IF \E i \in DOMAIN proto_desc_list : proto_desc_list[i].kind = "raise"
      THEN CHOOSE i \in DOMAIN proto_desc_list :
              /\ proto_desc_list[i].kind = "raise"
              /\ \A j \in 1..(i - 1) : proto_desc_list[j].kind # "raise"
      ELSE Len(proto_desc_list) + 1

\* The positions walked before that whose first entry is the identifier u, and
\* those among them that carry a second entry.
Named(u) ==
    {i \in 1..(Cut - 1) : proto_desc_list[i].kind = "list" /\ proto_desc_list[i].uuid = u}
WithParam(u) == {i \in Named(u) : proto_desc_list[i].params # <<>>}
Last(S) == CHOOSE i \in S : \A j \in S : j <= i

FlagIs(key, u) ==
    /\ key \in DOMAIN protocols <=> Named(u) # {}
    /\ key \in DOMAIN protocols => protocols[key] = TRUE

ParamIs(key, u) ==
    /\ key \in DOMAIN protocols <=> WithParam(u) # {}
    /\ key \in DOMAIN protocols => protocols[key] = proto_desc_list[Last(WithParam(u))].params[1]

\* C9: the parser never raises; its result holds a true flag L2CAP, RFCOMM,
\* OBEX, TCP, UDP exactly when an entry it walked starts with that identifier,
\* PSM (L2CAP) or Channel (RFCOMM) exactly when such an entry has a second
\* entry, with that entry as value (the last one, if several), nothing for
\* other identifiers, and parse_error exactly when walking the list raised, next
\* to the flags collected before.
C9_ParserFlags ==
    pc = "parsed" =>
        /\ FlagIs("L2CAP", L2CAP_UUID)
        /\ FlagIs("RFCOMM", RFCOMM_UUID)
        /\ FlagIs("OBEX", OBEX_UUID)
        /\ FlagIs("TCP", TCP_UUID)
        /\ FlagIs("UDP", UDP_UUID)
        /\ ParamIs("PSM", L2CAP_UUID)
        /\ ParamIs("Channel", RFCOMM_UUID)
        /\ "parse_error" \in DOMAIN protocols <=> Cut <= Len(proto_desc_list)
        /\ DOMAIN protocols \subseteq
              {"L2CAP", "RFCOMM", "OBEX", "TCP", "UDP", "PSM", "Channel", "parse_error"}
        /\ (\A i \in DOMAIN proto_desc_list :
                proto_desc_list[i].kind = "list" /\ proto_desc_list[i].uuid = OtherUuid)
              => DOMAIN protocols = {}

C9_Witness ==
    /\ pc = "parsed"
    /\ Len(proto_desc_list) = 2
    /\ proto_desc_list[1] = [kind |-> "list", uuid |-> RFCOMM_UUID, params |-> <<5>>]
    /\ proto_desc_list[2].kind = "raise"
    /\ DOMAIN protocols = {"RFCOMM", "Channel", "parse_error"}
    /\ protocols["Channel"] = 5

====
